---- MODULE Spec2Model ----
(***************************************************************************)
(* Logical engine of the Rubik's-cube portfolio: the 27 cubies with their  *)
(* integer coordinates and face-colour maps, the 90-degree layer turn, the *)
(* per-face solve detector and the MoveQueue that serialises the turns.    *)
(*                                                                         *)
(* JavaScript is single threaded: an event handler (a key press, the       *)
(* animation's onComplete) is a task that runs to completion, after which  *)
(* the pending promise continuations (microtasks) run before the next      *)
(* task.  Tasks are enabled only while the microtask queue is empty.       *)
(***************************************************************************)
EXTENDS Integers, Sequences, FiniteSets

VARIABLES
  cubies,       \* Cube.cubies: the 27 cubies in creation order
  queue,        \* MoveQueue.queue: entries {moveFunction, resolve}
  isAnimating,  \* MoveQueue.isAnimating
  animating,    \* the processNext frames whose animation is running
  micro,        \* the microtask queue: the continuations whose await is over
                \* (processNext frames, scramble calls), not yet resumed
  submitted,    \* history: the moves given to Cube.rotate, in order
  started,      \* history: ids of the moves whose function was invoked
  completed,    \* history: ids of the moves whose onComplete ran
  resolved,     \* history: ids of the promises resolve() was called on
  solvedFaces,  \* SolveDetector.solvedFaces
  newlySolved,  \* the list the last checkAllFaces returned
  onFaceSolved, \* Cube.onFaceSolved: null, or the callback main.js installs
  unlockIsAnimating,  \* UnlockAnimation.isAnimating
  played,       \* the faces whose timeline the last checkSolvedFaces started
  scrambles,    \* the calls of Cube.scramble: arguments, loop state, draws
  clicked       \* history: for each move a drag requested, the cubie clicked

vars == <<cubies, queue, isAnimating, animating, micro,
          submitted, started, completed, resolved,
          solvedFaces, newlySolved, onFaceSolved, unlockIsAnimating, played,
          scrambles, clicked>>

\* Number of move requests issued over a run (key presses, drags).
MaxMoves == 3

----------------------------------------------------------------------------
\* Constants of the program

null == "null"

Axes == {"x", "y", "z"}

Layers == {-1, 0, 1}

Directions == {1, -1}

faces == <<"right", "left", "up", "down", "front", "back">>

FaceNames == {faces[i] : i \in 1..Len(faces)}

Colors == {"white", "yellow", "green", "blue", "red", "orange"}

Moves == [axis : Axes, layer : Layers, direction : Directions]

NumCubies == 27

CubieIds == 1..NumCubies

----------------------------------------------------------------------------
\* Cubie

\* Cubie.initializeFaceColors: colours by starting position
initializeFaceColors(x, y, z) ==
  [right |-> IF x = 1 THEN "red" ELSE null,
   left  |-> IF x = -1 THEN "orange" ELSE null,
   up    |-> IF y = 1 THEN "white" ELSE null,
   down  |-> IF y = -1 THEN "yellow" ELSE null,
   front |-> IF z = 1 THEN "green" ELSE null,
   back  |-> IF z = -1 THEN "blue" ELSE null]

\* new Cubie(x, y, z)
Cubie(x, y, z) == [x |-> x, y |-> y, z |-> z,
                   faceColors |-> initializeFaceColors(x, y, z)]

\* Cubie.getColorOnFace
getColorOnFace(cubie, face) == cubie.faceColors[face]

\* rotateFaceColors with a slip in the first branch: back takes old.down
rotateFaceColorsSlip(old, axis, direction) ==
  IF axis = "x" THEN
    IF direction = 1
      THEN [old EXCEPT !.up = old.front, !.front = old.down,
                       !.down = old.back, !.back = old.down]
      ELSE [old EXCEPT !.up = old.back, !.back = old.down,
                       !.down = old.front, !.front = old.up]
  ELSE IF axis = "y" THEN
    IF direction = 1
      THEN [old EXCEPT !.front = old.right, !.right = old.back,
                       !.back = old.left, !.left = old.front]
      ELSE [old EXCEPT !.front = old.left, !.left = old.back,
                       !.back = old.right, !.right = old.front]
  ELSE IF axis = "z" THEN
    IF direction = 1
      THEN [old EXCEPT !.up = old.left, !.left = old.down,
                       !.down = old.right, !.right = old.up]
      ELSE [old EXCEPT !.up = old.right, !.right = old.down,
                       !.down = old.left, !.left = old.up]
  ELSE old

\* rotateFaceColors that reads old.top, a property the map does not have, in
\* the first branch: back becomes undefined
rotateFaceColorsTop(old, axis, direction) ==
  IF axis = "x" THEN
    IF direction = 1
      THEN [old EXCEPT !.up = old.front, !.front = old.down,
                       !.down = old.back, !.back = "undefined"]
      ELSE [old EXCEPT !.up = old.back, !.back = old.down,
                       !.down = old.front, !.front = old.up]
  ELSE IF axis = "y" THEN
    IF direction = 1
      THEN [old EXCEPT !.front = old.right, !.right = old.back,
                       !.back = old.left, !.left = old.front]
      ELSE [old EXCEPT !.front = old.left, !.left = old.back,
                       !.back = old.right, !.right = old.front]
  ELSE IF axis = "z" THEN
    IF direction = 1
      THEN [old EXCEPT !.up = old.left, !.left = old.down,
                       !.down = old.right, !.right = old.up]
      ELSE [old EXCEPT !.up = old.right, !.right = old.down,
                       !.down = old.left, !.left = old.up]
  ELSE old

\* rotateFaceColors with the tests of the first two branches exchanged: the
\* x cycle runs for axis y and the y cycle for axis x
rotateFaceColorsSwapped(old, axis, direction) ==
  IF axis = "y" THEN
    IF direction = 1
      THEN [old EXCEPT !.up = old.front, !.front = old.down,
                       !.down = old.back, !.back = old.up]
      ELSE [old EXCEPT !.up = old.back, !.back = old.down,
                       !.down = old.front, !.front = old.up]
  ELSE IF axis = "x" THEN
    IF direction = 1
      THEN [old EXCEPT !.front = old.right, !.right = old.back,
                       !.back = old.left, !.left = old.front]
      ELSE [old EXCEPT !.front = old.left, !.left = old.back,
                       !.back = old.right, !.right = old.front]
  ELSE IF axis = "z" THEN
    IF direction = 1
      THEN [old EXCEPT !.up = old.left, !.left = old.down,
                       !.down = old.right, !.right = old.up]
      ELSE [old EXCEPT !.up = old.right, !.right = old.down,
                       !.down = old.left, !.left = old.up]
  ELSE old

\* Cubie.rotateFaceColors: the assignments of the six branches
rotateFaceColors(old, axis, direction) ==
  IF axis = "x" THEN
    IF direction = 1
      THEN [old EXCEPT !.up = old.front, !.front = old.down,
                       !.down = old.back, !.back = old.up]
      ELSE [old EXCEPT !.up = old.back, !.back = old.down,
                       !.down = old.front, !.front = old.up]
  ELSE IF axis = "y" THEN
    IF direction = 1
      THEN [old EXCEPT !.front = old.right, !.right = old.back,
                       !.back = old.left, !.left = old.front]
      ELSE [old EXCEPT !.front = old.left, !.left = old.back,
                       !.back = old.right, !.right = old.front]
  ELSE IF axis = "z" THEN
    IF direction = 1
      THEN [old EXCEPT !.up = old.left, !.left = old.down,
                       !.down = old.right, !.right = old.up]
      ELSE [old EXCEPT !.up = old.right, !.right = old.down,
                       !.down = old.left, !.left = old.up]
  ELSE old

----------------------------------------------------------------------------
\* Cube

\* createCubies that leaves out the hidden cubie in the middle
createCubiesNoCore ==
  [i \in CubieIds \ {14} |-> Cubie(((i - 1) \div 9) - 1,
                                    (((i - 1) \div 3) % 3) - 1,
                                    ((i - 1) % 3) - 1)]

\* Cube.createCubies: x outermost, z innermost, pushed in that order
createCubies ==
  [i \in CubieIds |-> Cubie(((i - 1) \div 9) - 1,
                            (((i - 1) \div 3) % 3) - 1,
                            ((i - 1) % 3) - 1)]

\* getCubiesOnLayer with >= in place of ===
getCubiesOnLayerAtLeast(cs, axis, layer) ==
  {i \in CubieIds : axis \in DOMAIN cs[i] /\ cs[i][axis] >= layer}

\* Cube.getCubiesOnLayer (the indices of the filtered cubies); cubie[axis]
\* is undefined for a name that is no property of the cubie, and
\* undefined === layer is false
getCubiesOnLayer(cs, axis, layer) ==
  {i \in CubieIds : axis \in DOMAIN cs[i] /\ cs[i][axis] = layer}

\* Math.round: the coordinates are integers (they are only ever swapped and
\* negated), and Math.round of an integer is that integer
round(v) == v

\* rotatePosition that ignores the direction: always the +1 substitution
rotatePositionOneWay(cubie, axis, direction) ==
  IF axis = "x" THEN [cubie EXCEPT !.y = -cubie.z, !.z = cubie.y]
  ELSE IF axis = "y" THEN [cubie EXCEPT !.x = cubie.z, !.z = -cubie.x]
  ELSE IF axis = "z" THEN [cubie EXCEPT !.x = -cubie.y, !.y = cubie.x]
  ELSE cubie

\* rotatePosition without the saved old values: the second assignment reads
\* the coordinate the first one has just overwritten
rotatePositionNoOld(cubie, axis, direction) ==
  IF axis = "x" THEN
    LET y1 == IF direction = 1 THEN -cubie.z ELSE cubie.z
    IN [cubie EXCEPT !.y = y1, !.z = IF direction = 1 THEN y1 ELSE -y1]
  ELSE IF axis = "y" THEN
    LET x1 == IF direction = 1 THEN cubie.z ELSE -cubie.z
    IN [cubie EXCEPT !.x = x1, !.z = IF direction = 1 THEN -x1 ELSE x1]
  ELSE IF axis = "z" THEN
    LET x1 == IF direction = 1 THEN -cubie.y ELSE cubie.y
    IN [cubie EXCEPT !.x = x1, !.y = IF direction = 1 THEN x1 ELSE -x1]
  ELSE cubie

\* rotatePosition with sums in place of the substitution (the turn by 45
\* degrees, not normalised): the coordinates leave {-1, 0, 1}
rotatePositionSum(cubie, axis, direction) ==
  IF axis = "x" THEN
    [cubie EXCEPT !.y = cubie.y - direction * cubie.z,
                  !.z = cubie.z + direction * cubie.y]
  ELSE IF axis = "y" THEN
    [cubie EXCEPT !.x = cubie.x + direction * cubie.z,
                  !.z = cubie.z - direction * cubie.x]
  ELSE IF axis = "z" THEN
    [cubie EXCEPT !.x = cubie.x - direction * cubie.y,
                  !.y = cubie.y + direction * cubie.x]
  ELSE cubie

\* The coordinate part of updatePositionsAfterRotation for one cubie: the
\* substitution of the axis from the saved old values, then the rounding
rotatePosition(cubie, axis, direction) ==
  IF axis = "x" THEN
    [cubie EXCEPT !.x = round(cubie.x),
                  !.y = round(IF direction = 1 THEN -cubie.z ELSE cubie.z),
                  !.z = round(IF direction = 1 THEN cubie.y ELSE -cubie.y)]
  ELSE IF axis = "y" THEN
    [cubie EXCEPT !.x = round(IF direction = 1 THEN cubie.z ELSE -cubie.z),
                  !.y = round(cubie.y),
                  !.z = round(IF direction = 1 THEN -cubie.x ELSE cubie.x)]
  ELSE IF axis = "z" THEN
    [cubie EXCEPT !.x = round(IF direction = 1 THEN -cubie.y ELSE cubie.y),
                  !.y = round(IF direction = 1 THEN cubie.x ELSE -cubie.x),
                  !.z = round(cubie.z)]
  ELSE [cubie EXCEPT !.x = round(cubie.x), !.y = round(cubie.y),
                     !.z = round(cubie.z)]

\* updatePositionsAfterRotation that walks this.cubies, not the layer's
updatePositionsAfterRotationAll(cs, layerCubies, axis, direction) ==
  [i \in CubieIds |->
     [rotatePosition(cs[i], axis, direction)
        EXCEPT !.faceColors = rotateFaceColors(@, axis, direction)]]

\* Cube.updatePositionsAfterRotation, the cubies.forEach part: the new
\* position, then rotateFaceColors on the cubie's colours
updatePositionsAfterRotation(cs, layerCubies, axis, direction) ==
  [i \in CubieIds |->
     IF i \in layerCubies
       THEN [rotatePosition(cs[i], axis, direction)
               EXCEPT !.faceColors = rotateFaceColors(@, axis, direction)]
       ELSE cs[i]]

\* The logical effect of one whole move on a cube state
applyMove(cs, m) ==
  updatePositionsAfterRotation(cs, getCubiesOnLayer(cs, m.axis, m.layer),
                               m.axis, m.direction)

----------------------------------------------------------------------------
\* The meshes: what the rendered cube shows.  executeRotation attaches the
\* meshes of layerCubies to a pivot and turns it about the axis by
\* (PI/2)*direction, so a sticker whose outward normal is n then faces R(n).

\* The unit normal of a face of the cube
faceNormal(face) ==
  CASE face = "right" -> [x |-> 1, y |-> 0, z |-> 0]
    [] face = "left"  -> [x |-> -1, y |-> 0, z |-> 0]
    [] face = "up"    -> [x |-> 0, y |-> 1, z |-> 0]
    [] face = "down"  -> [x |-> 0, y |-> -1, z |-> 0]
    [] face = "front" -> [x |-> 0, y |-> 0, z |-> 1]
    [] face = "back"  -> [x |-> 0, y |-> 0, z |-> -1]

\* pivot.rotation[axis] = (PI/2)*direction applied to a vector:
\* cos = 0 and sin = direction in the rotation matrix about the axis
pivotRotate(v, axis, direction) ==
  IF axis = "x"
    THEN [x |-> v.x, y |-> -direction * v.z, z |-> direction * v.y]
  ELSE IF axis = "y"
    THEN [x |-> direction * v.z, y |-> v.y, z |-> -direction * v.x]
  ELSE [x |-> -direction * v.y, y |-> direction * v.x, z |-> v.z]

\* The colours one cubie's mesh shows in each direction after the pivot turn
rotateMesh(shown, axis, direction) ==
  [f \in FaceNames |->
     LET src == CHOOSE g \in FaceNames :
                  pivotRotate(faceNormal(g), axis, direction) = faceNormal(f)
     IN shown[src]]

\* The meshes after the animation of a move on the cubies of layerCubies
animateMeshes(ms, layerCubies, axis, direction) ==
  [i \in CubieIds |->
     IF i \in layerCubies THEN rotateMesh(ms[i], axis, direction) ELSE ms[i]]

\* Cubie.createMesh: the materials are made from the initial face colours
createMeshes == [i \in CubieIds |-> createCubies[i].faceColors]

\* The rendered cube after a list of moves ran one after the other: each
\* executeRotation takes its layer from the logical coordinates, turns those
\* meshes, and updates the logical state on completion
RECURSIVE rendered(_)
rendered(moves) ==
  IF moves = <<>>
    THEN [cubies |-> createCubies, meshes |-> createMeshes]
    ELSE LET n == Len(moves)
             m == moves[n]
             before == CHOOSE r \in {rendered(SubSeq(moves, 1, n - 1))} : TRUE
             layerCubies == getCubiesOnLayer(before.cubies, m.axis, m.layer)
         IN [cubies |-> updatePositionsAfterRotation(before.cubies,
                            layerCubies, m.axis, m.direction),
             meshes |-> animateMeshes(before.meshes, layerCubies,
                                      m.axis, m.direction)]

----------------------------------------------------------------------------
\* SolveDetector

faceToAxisLayer(face) ==
  CASE face = "right" -> [axis |-> "x", layer |-> 1]
    [] face = "left"  -> [axis |-> "x", layer |-> -1]
    [] face = "up"    -> [axis |-> "y", layer |-> 1]
    [] face = "down"  -> [axis |-> "y", layer |-> -1]
    [] face = "front" -> [axis |-> "z", layer |-> 1]
    [] face = "back"  -> [axis |-> "z", layer |-> -1]

\* SolveDetector.getCubiesOnFace (faceToAxisLayer is looked up once)
getCubiesOnFace(cs, face) ==
  UNION {{i \in CubieIds : round(cs[i][al.axis]) = al.layer} :
           al \in {faceToAxisLayer(face)}}

\* SolveDetector.isCenter
isCenter(cubie, face) ==
  \A a \in Axes \ {faceToAxisLayer(face).axis} : cubie[a] = 0

\* The first cubie of the list that is the centre (Array.find)
findCenter(cs, cubiesOnFace, face) ==
  {i \in cubiesOnFace :
     /\ isCenter(cs[i], face)
     /\ \A j \in cubiesOnFace : isCenter(cs[j], face) => i <= j}

\* isFaceSolved without the check that the centre shows a colour
isFaceSolvedNoColourCheck(cs, face) ==
  \E cubiesOnFace \in {getCubiesOnFace(cs, face)} :
    /\ ~(Cardinality(cubiesOnFace) # 9)
    /\ \E centerCubie \in findCenter(cs, cubiesOnFace, face) :
         \E centerColor \in {getColorOnFace(cs[centerCubie], face)} :
           \A i \in cubiesOnFace :
              getColorOnFace(cs[i], face) = centerColor

\* isFaceSolved with some() in place of every()
isFaceSolvedSome(cs, face) ==
  \E cubiesOnFace \in {getCubiesOnFace(cs, face)} :
    /\ ~(Cardinality(cubiesOnFace) # 9)
    /\ \E centerCubie \in findCenter(cs, cubiesOnFace, face) :
         \E centerColor \in {getColorOnFace(cs[centerCubie], face)} :
           /\ ~(centerColor = null)
           /\ \E i \in cubiesOnFace :
                 getColorOnFace(cs[i], face) = centerColor

\* SolveDetector.isFaceSolved: false at each of the three early returns
\* (not 9 cubies, no centre cubie, no centre colour), else the every()
isFaceSolved(cs, face) ==
  \E cubiesOnFace \in {getCubiesOnFace(cs, face)} :
    /\ ~(Cardinality(cubiesOnFace) # 9)
    /\ \E centerCubie \in findCenter(cs, cubiesOnFace, face) :
         \E centerColor \in {getColorOnFace(cs[centerCubie], face)} :
           /\ ~(centerColor = null)
           /\ \A i \in cubiesOnFace :
                 getColorOnFace(cs[i], face) = centerColor

\* The isSolved values checkAllFaces computes in its loop, as the set of the
\* faces where it is true
isSolvedFaces(cs) == {face \in FaceNames : isFaceSolved(cs, face)}

\* checkAllFaces without the else-if branch that deletes
checkAllFacesSolvedNoDelete(isSolved, was) ==
  was \cup {face \in FaceNames : face \in isSolved /\ face \notin was}

\* SolveDetector.checkAllFaces: solvedFaces after the loop (add when solved
\* and not retained, delete when retained and not solved)
checkAllFacesSolved(isSolved, was) ==
  (was \cup {face \in FaceNames : face \in isSolved /\ face \notin was})
    \ {face \in was : face \notin isSolved}

\* SolveDetector.checkAllFaces: the returned list, in the order of faces
checkAllFacesNewly(isSolved, was) ==
  SelectSeq(faces, LAMBDA face : face \in isSolved /\ face \notin was)

----------------------------------------------------------------------------
\* UnlockAnimation, wired to the cube by main.js:
\* cube.onFaceSolved = (face) => unlockAnimation.play(face)

\* UnlockAnimation.play on the state u = [isAnimating, played]: nothing while
\* a timeline runs, else the flag is set and the face's timeline is created
play(u, face) ==
  IF u.isAnimating
    THEN u
    ELSE [isAnimating |-> TRUE, played |-> Append(u.played, face)]

\* The callback main.js assigns to cube.onFaceSolved
unlockAnimationPlay == "unlockAnimation.play"

\* Cube.checkSolvedFaces: for each face of the returned list, one after the
\* other, the callback if there is one
RECURSIVE checkSolvedFaces(_, _, _)
checkSolvedFaces(newly, callback, u) ==
  IF newly = <<>> THEN u
  ELSE checkSolvedFaces(Tail(newly), callback,
                        IF callback # null THEN play(u, Head(newly)) ELSE u)

----------------------------------------------------------------------------
\* MoveQueue

\* processNext's early return without the isAnimating test
processNextRunsUnguarded(q, anim) == ~(Len(q) = 0)

\* processNext with a recovery policy: it gives up on the running move and
\* goes on once two moves wait behind it
processNextRunsRecover(q, anim) == ~(Len(q) = 0) /\ (~anim \/ Len(q) >= 2)

\* processNext's early return: it goes on only when idle with work queued
processNextRuns(q, anim) == ~(anim \/ Len(q) = 0)

\* The closure add() is given by Cube.rotate: () => executeRotation(...)
moveFunctionOf(id, axis, layer, direction) ==
  [id |-> id, axis |-> axis, layer |-> layer, direction |-> direction]

\* A single resolve slot that every add() overwrites: the latest submitter's
resolveOfLatest(frame) == Len(submitted)

\* Which resolve processNext calls once the awaited move is over: the one it
\* destructured from the queue entry together with the move function
resolveOf(frame) == frame.resolve

\* processNext that takes the entry with pop() in place of shift()
processNextPop(q, anim, cs) ==
  IF ~(anim \/ Len(q) = 0)
    THEN LET e == q[Len(q)]
         IN [queue |-> SubSeq(q, 1, Len(q) - 1), isAnimating |-> TRUE,
             frames |-> {[moveFunction |-> e.moveFunction,
                          resolve |-> e.resolve,
                          layerCubies |-> getCubiesOnLayer(cs,
                               e.moveFunction.axis, e.moveFunction.layer)]}]
    ELSE [queue |-> q, isAnimating |-> anim, frames |-> {}]

\* processNext from its entry up to the await: the new queue and flag, and
\* the frame it suspends in (its locals and executeRotation's layerCubies)
processNext(q, anim, cs) ==
  IF processNextRuns(q, anim)
    THEN LET e == Head(q)
         IN [queue |-> Tail(q), isAnimating |-> TRUE,
             frames |-> {[moveFunction |-> e.moveFunction,
                          resolve |-> e.resolve,
                          layerCubies |-> getCubiesOnLayer(cs,
                               e.moveFunction.axis, e.moveFunction.layer)]}]
    ELSE [queue |-> q, isAnimating |-> anim, frames |-> {}]

\* The ids of the moves a processNext call started, as a sequence
startedBy(frames) ==
  IF frames = {} THEN <<>>
  ELSE <<(CHOOSE f \in frames : TRUE).moveFunction.id>>

----------------------------------------------------------------------------
\* KeyboardControls

\* The nine keys of the switch
Keys == {"r", "l", "u", "d", "f", "b", "m", "e", "s"}

\* String.prototype.toLowerCase on the key names that occur
toLowerCase(key) ==
  CASE key = "R" -> "r" [] key = "L" -> "l" [] key = "U" -> "u"
    [] key = "D" -> "d" [] key = "F" -> "f" [] key = "B" -> "b"
    [] key = "M" -> "m" [] key = "E" -> "e" [] key = "S" -> "s"
    [] OTHER -> key

\* The keydown event of a key of the switch: e.key is the capital letter
\* when Shift is held
keyEvent(key, isShift) ==
  [key |-> IF isShift
             THEN CHOOSE K \in {"R", "L", "U", "D", "F", "B", "M", "E", "S"} :
                    toLowerCase(K) = key
             ELSE key,
   shiftKey |-> isShift]

\* The keydown listener with dir = 1 whatever e.shiftKey is
keydownNoShift(e) ==
  LET key == toLowerCase(e.key)
      dir == 1
  IN CASE key = "r" -> [axis |-> "x", layer |-> 1, direction |-> dir]
       [] key = "l" -> [axis |-> "x", layer |-> -1, direction |-> -dir]
       [] key = "u" -> [axis |-> "y", layer |-> 1, direction |-> dir]
       [] key = "d" -> [axis |-> "y", layer |-> -1, direction |-> -dir]
       [] key = "f" -> [axis |-> "z", layer |-> 1, direction |-> dir]
       [] key = "b" -> [axis |-> "z", layer |-> -1, direction |-> -dir]
       [] key = "m" -> [axis |-> "x", layer |-> 0, direction |-> -dir]
       [] key = "e" -> [axis |-> "y", layer |-> 0, direction |-> -dir]
       [] key = "s" -> [axis |-> "z", layer |-> 0, direction |-> dir]
       [] OTHER -> null

\* The keydown listener of setupKeyboardControls: the arguments of the
\* cube.rotate call the switch makes, null when it makes none
keydown(e) ==
  LET key == toLowerCase(e.key)
      dir == IF e.shiftKey THEN -1 ELSE 1
  IN CASE key = "r" -> [axis |-> "x", layer |-> 1, direction |-> dir]
       [] key = "l" -> [axis |-> "x", layer |-> -1, direction |-> -dir]
       [] key = "u" -> [axis |-> "y", layer |-> 1, direction |-> dir]
       [] key = "d" -> [axis |-> "y", layer |-> -1, direction |-> -dir]
       [] key = "f" -> [axis |-> "z", layer |-> 1, direction |-> dir]
       [] key = "b" -> [axis |-> "z", layer |-> -1, direction |-> -dir]
       [] key = "m" -> [axis |-> "x", layer |-> 0, direction |-> -dir]
       [] key = "e" -> [axis |-> "y", layer |-> 0, direction |-> -dir]
       [] key = "s" -> [axis |-> "z", layer |-> 0, direction |-> dir]
       [] OTHER -> null

----------------------------------------------------------------------------
\* new Cube(scene) and new UnlockAnimation(cube)
Constructed ==
  /\ cubies = createCubies
  /\ queue = <<>>
  /\ isAnimating = FALSE
  /\ animating = {}
  /\ micro = <<>>
  /\ submitted = <<>>
  /\ started = <<>>
  /\ completed = <<>>
  /\ resolved = <<>>
  /\ solvedFaces = {}
  /\ newlySolved = <<>>
  /\ unlockIsAnimating = FALSE
  /\ played = <<>>
  /\ scrambles = <<>>
  /\ clicked = <<>>

\* The cube as constructed: no callback
Init == Constructed /\ onFaceSolved = null

\* The page once main.js has run: the callback plays the unlock animation
MainInit == Constructed /\ onFaceSolved = unlockAnimationPlay

\* Rotate that applies the permutation at submission, before the animation
RotateOptimistic(axis, layer, direction) ==
  /\ micro = <<>>
  /\ Len(submitted) < MaxMoves
  /\ LET id == Len(submitted) + 1
         pushed == Append(queue,
                     [moveFunction |-> moveFunctionOf(id, axis, layer, direction),
                      resolve |-> id])
     IN \E r \in {processNext(pushed, isAnimating, cubies)} :
        /\ submitted' = Append(submitted,
                           [axis |-> axis, layer |-> layer,
                            direction |-> direction])
        /\ queue' = r.queue
        /\ isAnimating' = r.isAnimating
        /\ animating' = animating \cup r.frames
        /\ started' = started \o startedBy(r.frames)
  /\ cubies' = applyMove(cubies, [axis |-> axis, layer |-> layer,
                                  direction |-> direction])
  /\ UNCHANGED <<micro, completed, resolved,
                 solvedFaces, newlySolved, onFaceSolved,
                 unlockIsAnimating, played, scrambles,
                 clicked>>

\* Cube.rotate(axis, layer, direction) = MoveQueue.add: push, then processNext
\* runs synchronously up to its await
Rotate(axis, layer, direction) ==
  /\ micro = <<>>
  /\ Len(submitted) < MaxMoves
  /\ LET id == Len(submitted) + 1
         pushed == Append(queue,
                     [moveFunction |-> moveFunctionOf(id, axis, layer, direction),
                      resolve |-> id])
     IN \E r \in {processNext(pushed, isAnimating, cubies)} :
        /\ submitted' = Append(submitted,
                           [axis |-> axis, layer |-> layer,
                            direction |-> direction])
        /\ queue' = r.queue
        /\ isAnimating' = r.isAnimating
        /\ animating' = animating \cup r.frames
        /\ started' = started \o startedBy(r.frames)
  /\ UNCHANGED <<cubies, micro, completed, resolved,
                 solvedFaces, newlySolved, onFaceSolved,
                 unlockIsAnimating, played, scrambles,
                 clicked>>

\* onComplete with checkSolvedFaces called before the logical update
AnimationCompleteCheckFirst ==
  /\ micro = <<>>
  /\ \E f \in animating :
       LET m == f.moveFunction
       IN /\ cubies' = updatePositionsAfterRotation(cubies, f.layerCubies,
                                                    m.axis, m.direction)
          /\ \E isSolved \in {isSolvedFaces(cubies)} :
               /\ solvedFaces' = checkAllFacesSolved(isSolved, solvedFaces)
               /\ newlySolved' = checkAllFacesNewly(isSolved, solvedFaces)
          /\ \E u \in {checkSolvedFaces(newlySolved', onFaceSolved,
                           [isAnimating |-> unlockIsAnimating,
                            played |-> <<>>])} :
               /\ unlockIsAnimating' = u.isAnimating
               /\ played' = u.played
          /\ completed' = Append(completed, m.id)
          /\ animating' = animating \ {f}
          /\ micro' = Append(micro, f)
  /\ UNCHANGED <<queue, isAnimating, submitted, started, resolved,
                 onFaceSolved, scrambles,
                 clicked>>

\* The animation's onComplete of executeRotation: the logical update, the
\* solve check, and resolve() of the move function's promise, which queues
\* the continuation of the processNext that awaits it
AnimationComplete ==
  /\ micro = <<>>
  /\ \E f \in animating :
       LET m == f.moveFunction
       IN /\ cubies' = updatePositionsAfterRotation(cubies, f.layerCubies,
                                                    m.axis, m.direction)
          /\ \E isSolved \in {isSolvedFaces(cubies')} :
               /\ solvedFaces' = checkAllFacesSolved(isSolved, solvedFaces)
               /\ newlySolved' = checkAllFacesNewly(isSolved, solvedFaces)
          /\ \E u \in {checkSolvedFaces(newlySolved', onFaceSolved,
                           [isAnimating |-> unlockIsAnimating,
                            played |-> <<>>])} :
               /\ unlockIsAnimating' = u.isAnimating
               /\ played' = u.played
          /\ completed' = Append(completed, m.id)
          /\ animating' = animating \ {f}
          /\ micro' = Append(micro, f)
  /\ UNCHANGED <<queue, isAnimating, submitted, started, resolved,
                 onFaceSolved, scrambles,
                 clicked>>

\* The rejection handled as by try/finally: the flag is cleared and
\* processNext called again
MoveFunctionRejectsCaught ==
  \E f \in animating :
    \E r \in {processNext(queue, FALSE, cubies)} :
      /\ animating' = (animating \ {f}) \cup r.frames
      /\ queue' = r.queue
      /\ isAnimating' = r.isAnimating
      /\ started' = started \o startedBy(r.frames)
      /\ UNCHANGED <<cubies, micro, submitted, completed, resolved,
                     solvedFaces, newlySolved, onFaceSolved,
                     unlockIsAnimating, played, scrambles,
                 clicked>>

\* The promise the move function returned rejects (or the function throws):
\* `await moveFunction()` throws inside processNext, which has no try/catch,
\* so the statements after it (isAnimating = false, resolve(),
\* processNext()) are skipped and only processNext's own promise rejects
MoveFunctionRejects ==
  \E f \in animating :
    /\ animating' = animating \ {f}
    /\ UNCHANGED <<cubies, queue, isAnimating, micro,
                   submitted, started, completed, resolved,
                   solvedFaces, newlySolved, onFaceSolved,
                   unlockIsAnimating, played, scrambles,
                 clicked>>

\* The microtask is the continuation of a processNext call
isFrame(c) == "moveFunction" \in DOMAIN c

\* resolve() waking a scramble call that awaits some promise, whichever
awaitingAny(id) ==
  IF \E k \in 1..Len(scrambles) : scrambles[k].awaits # 0
    THEN <<[scramble |-> CHOOSE k \in 1..Len(scrambles) :
                           scrambles[k].awaits # 0]>>
    ELSE <<>>

\* The continuations resolve() of the promise id schedules: the scramble
\* call that awaits the promise rotate() returned to it, if one does
awaiting(id) ==
  IF \E k \in 1..Len(scrambles) : scrambles[k].awaits = id
    THEN <<[scramble |-> CHOOSE k \in 1..Len(scrambles) :
                           scrambles[k].awaits = id]>>
    ELSE <<>>

\* The continuation without the trailing this.processNext()
ProcessNextResumeNoNext ==
  /\ micro # <<>>
  /\ isFrame(Head(micro))
  /\ micro' = Tail(micro) \o awaiting(resolveOf(Head(micro)))
  /\ resolved' = Append(resolved, resolveOf(Head(micro)))
  /\ isAnimating' = FALSE
  /\ UNCHANGED <<cubies, queue, animating, started, submitted, completed,
                 solvedFaces, newlySolved, onFaceSolved,
                 unlockIsAnimating, played, scrambles,
                 clicked>>

\* processNext after its await: clear the flag, resolve, processNext again
ProcessNextResume ==
  /\ micro # <<>>
  /\ isFrame(Head(micro))
  /\ LET f == Head(micro)
     IN \E r \in {processNext(queue, FALSE, cubies)} :
        /\ micro' = Tail(micro) \o awaiting(resolveOf(f))
        /\ resolved' = Append(resolved, resolveOf(f))
        /\ queue' = r.queue
        /\ isAnimating' = r.isAnimating
        /\ animating' = animating \cup r.frames
        /\ started' = started \o startedBy(r.frames)
  /\ UNCHANGED <<cubies, submitted, completed,
                 solvedFaces, newlySolved, onFaceSolved,
                 unlockIsAnimating, played, scrambles,
                 clicked>>

\* MoveQueue.add as Cube.rotate calls it from within another function: the
\* entry is pushed and processNext runs up to its await; the promise
\* returned is the one of the new entry, Len(submitted) + 1
add(axis, layer, direction) ==
  LET id == Len(submitted) + 1
      pushed == Append(queue,
                  [moveFunction |-> moveFunctionOf(id, axis, layer, direction),
                   resolve |-> id])
  IN \E r \in {processNext(pushed, isAnimating, cubies)} :
       /\ submitted' = Append(submitted,
                          [axis |-> axis, layer |-> layer,
                           direction |-> direction])
       /\ queue' = r.queue
       /\ isAnimating' = r.isAnimating
       /\ animating' = animating \cup r.frames
       /\ started' = started \o startedBy(r.frames)

\* Three successive values of Math.random(), in thousandths of [0, 1): the
\* draws of one pass of scramble's loop
RandomValues == {<<0, 0, 0>>, <<500, 500, 999>>, <<999, 999, 0>>}

\* array[Math.floor(Math.random() * array.length)] for a random value r
pick(array, r) == array[((r * Len(array)) \div 1000) + 1]

\* The three draws of one loop iteration of scramble
drawMove(r1, r2, r3) ==
  [axis |-> pick(<<"x", "y", "z">>, r1),
   layer |-> pick(<<-1, 0, 1>>, r2),
   direction |-> pick(<<1, -1>>, r3)]

\* The arguments scramble is called with: a move count, and a seed (which
\* the function, declared scramble(moveCount = 20), does not look at)
MoveCounts == 1..MaxMoves

Seeds == {42, 7}

\* The list of calls with the record of the call k written (appended when
\* the call is new)
put(calls, k, call) ==
  IF k > Len(calls) THEN Append(calls, call) ELSE [calls EXCEPT ![k] = call]

\* The moves the running scramble calls have still to draw
RECURSIVE toDraw(_)
toDraw(calls) ==
  IF calls = <<>> THEN 0
  ELSE (Head(calls).moveCount - Len(Head(calls).drawn)) + toDraw(Tail(calls))

\* One pass of scramble's loop body for the call k, entered with index i:
\* three draws, rotate, and the await of the promise it returned
ScrambleLoop(k, call, i) ==
  \E r \in RandomValues :
    \E m \in {drawMove(r[1], r[2], r[3])} :
      /\ add(m.axis, m.layer, m.direction)
      /\ scrambles' =
           put(scrambles, k,
               [call EXCEPT !.i = i,
                            !.awaits = Len(submitted) + 1,
                            !.drawn = Append(@, [id |-> Len(submitted) + 1,
                                                 move |-> m])])

\* Cube.scramble(moveCount) called (button, space bar, the timer of main.js):
\* an async function, it runs up to its first await
Scramble(moveCount, seed) ==
  /\ micro = <<>>
  /\ Len(submitted) + toDraw(scrambles) + moveCount <= MaxMoves
  /\ LET k == Len(scrambles) + 1
         call == [moveCount |-> moveCount, seed |-> seed,
                  from |-> Len(completed), i |-> 0, awaits |-> 0,
                  drawn |-> <<>>, done |-> FALSE]
     IN IF 0 < moveCount
          THEN ScrambleLoop(k, call, 0)
          ELSE /\ scrambles' = put(scrambles, k, [call EXCEPT !.done = TRUE])
               /\ UNCHANGED <<submitted, queue, isAnimating, animating,
                              started>>
  /\ UNCHANGED <<cubies, micro, completed, resolved,
                 solvedFaces, newlySolved, onFaceSolved,
                 unlockIsAnimating, played, clicked>>

\* The continuation with i <= moveCount as the loop condition
ScrambleResumeOneMore ==
  /\ micro # <<>>
  /\ ~isFrame(Head(micro))
  /\ LET k == Head(micro).scramble
         call == scrambles[k]
         i == call.i + 1
     IN IF i <= call.moveCount
          THEN ScrambleLoop(k, call, i)
          ELSE /\ scrambles' = put(scrambles, k,
                                   [call EXCEPT !.i = i, !.awaits = 0,
                                                !.done = TRUE])
               /\ UNCHANGED <<submitted, queue, isAnimating, animating,
                              started>>
  /\ micro' = Tail(micro)
  /\ UNCHANGED <<cubies, completed, resolved,
                 solvedFaces, newlySolved, onFaceSolved,
                 unlockIsAnimating, played, clicked>>

\* scramble after its await: i++, then the next pass of the loop, or the end
\* of the function, which resolves the promise scramble returned
ScrambleResume ==
  /\ micro # <<>>
  /\ ~isFrame(Head(micro))
  /\ LET k == Head(micro).scramble
         call == scrambles[k]
         i == call.i + 1
     IN IF i < call.moveCount
          THEN ScrambleLoop(k, call, i)
          ELSE /\ scrambles' = put(scrambles, k,
                                   [call EXCEPT !.i = i, !.awaits = 0,
                                                !.done = TRUE])
               /\ UNCHANGED <<submitted, queue, isAnimating, animating,
                              started>>
  /\ micro' = Tail(micro)
  /\ UNCHANGED <<cubies, completed, resolved,
                 solvedFaces, newlySolved, onFaceSolved,
                 unlockIsAnimating, played, clicked>>

----------------------------------------------------------------------------
\* DragControls

\* Math.abs
abs(v) == IF v < 0 THEN -v ELSE v

\* executeFaceRotation: the axis of the clicked face, from its world normal
clickedAxisOf(normal) ==
  IF abs(normal.x) > abs(normal.y) /\ abs(normal.x) > abs(normal.z) THEN "x"
  ELSE IF abs(normal.y) > abs(normal.z) THEN "y"
  ELSE "z"

\* DragControls.determineRotation
determineRotation(clickedAxis, dx, dy) ==
  LET isHorizontal == abs(dx) > abs(dy)
      isPositiveX == dx > 0
      isPositiveY == dy > 0
  IN IF clickedAxis = "z" THEN
       IF isHorizontal
         THEN [axis |-> "y", direction |-> IF isPositiveX THEN 1 ELSE -1]
         ELSE [axis |-> "x", direction |-> IF isPositiveY THEN -1 ELSE 1]
     ELSE IF clickedAxis = "y" THEN
       IF isHorizontal
         THEN [axis |-> "z", direction |-> IF isPositiveX THEN -1 ELSE 1]
         ELSE [axis |-> "x", direction |-> IF isPositiveY THEN -1 ELSE 1]
     ELSE
       IF isHorizontal
         THEN [axis |-> "y", direction |-> IF isPositiveX THEN 1 ELSE -1]
         ELSE [axis |-> "z", direction |-> IF isPositiveY THEN 1 ELSE -1]

\* DragControls.dragThreshold, in pixels
dragThreshold == 10

\* The mouse movements since mousedown, (dx, dy) in pixels: right, left and
\* up, down and right, and one below the threshold
DragVectors == {<<20, 0>>, <<-20, 5>>, <<3, 20>>, <<3, 4>>}

\* The cubies clicked: the corners created at (1, 1, 1) and (-1, 1, 1)
ClickedCubies == {27, 9}

\* A drag: mousedown on an outer face of a cubie, then the mousemove that
\* passes the threshold, which runs executeFaceRotation (the layer is the
\* clicked cubie's coordinate at that moment) and resets the drag state
Drag(cubie, face, dx, dy) ==
  /\ micro = <<>>
  /\ Len(submitted) < MaxMoves
  /\ cubie \in getCubiesOnFace(cubies, face)
  /\ dx * dx + dy * dy > dragThreshold * dragThreshold
  /\ \E r \in {determineRotation(clickedAxisOf(faceNormal(face)), dx, dy)} :
       \E rotationLayer \in {cubies[cubie][r.axis]} :
         add(r.axis, round(rotationLayer), r.direction)
  /\ clicked' = Append(clicked, [id |-> Len(submitted) + 1, cubie |-> cubie])
  /\ UNCHANGED <<cubies, micro, completed, resolved,
                 solvedFaces, newlySolved, onFaceSolved,
                 unlockIsAnimating, played, scrambles>>

\* The onComplete of the unlock timeline: the flag is cleared
\* (navigateToSection only logs and eases the meshes back)
UnlockComplete ==
  /\ micro = <<>>
  /\ unlockIsAnimating
  /\ unlockIsAnimating' = FALSE
  /\ UNCHANGED <<cubies, queue, isAnimating, animating, micro,
                 submitted, started, completed, resolved,
                 solvedFaces, newlySolved, onFaceSolved, played, scrambles,
                 clicked>>

Next ==
  \/ \E axis \in Axes, layer \in Layers, direction \in Directions :
       Rotate(axis, layer, direction)
  \/ AnimationComplete
  \/ ProcessNextResume

Spec == Init /\ [][Next]_vars

\* The page: the cube with the unlock animation wired to it
MainNext ==
  \/ \E axis \in Axes, layer \in Layers, direction \in Directions :
       Rotate(axis, layer, direction)
  \/ AnimationComplete
  \/ ProcessNextResume
  \/ UnlockComplete

MainSpec == MainInit /\ [][MainNext]_vars

\* Cube.rotate takes whatever arguments it is called with: two requests
\* within the documented ranges, and three with one argument outside them
Requests ==
  {[axis |-> "x", layer |-> 1, direction |-> 1],
   [axis |-> "y", layer |-> 0, direction |-> -1],
   [axis |-> "w", layer |-> 1, direction |-> 1],
   [axis |-> "x", layer |-> 2, direction |-> 1],
   [axis |-> "x", layer |-> 1, direction |-> 2]}

AnyNext ==
  \/ \E m \in Requests : Rotate(m.axis, m.layer, m.direction)
  \/ AnimationComplete
  \/ ProcessNextResume

AnySpec == Init /\ [][AnyNext]_vars

\* Scrambles and the key R, as long as the moves requested and the moves the
\* running scrambles will still draw stay within MaxMoves
ScrambleNext ==
  \/ \E moveCount \in MoveCounts, seed \in Seeds : Scramble(moveCount, seed)
  \/ ScrambleResume
  \/ (Len(submitted) + toDraw(scrambles) < MaxMoves /\ Rotate("x", 1, 1))
  \/ AnimationComplete
  \/ ProcessNextResume

ScrambleSpec == Init /\ [][ScrambleNext]_vars

\* The same, where every animation completes and the event loop runs every
\* pending continuation
ScrambleLiveSpec ==
  /\ Init
  /\ [][ScrambleNext]_vars
  /\ WF_vars(AnimationComplete)
  /\ WF_vars(ProcessNextResume)
  /\ WF_vars(ScrambleResume)

\* Any of the 18 moves, each requested once the one before it is over (no
\* move in flight, none queued, no continuation pending)
TurnNext ==
  \/ \E axis \in Axes, layer \in Layers, direction \in Directions :
       /\ queue = <<>> /\ ~isAnimating /\ animating = {}
       /\ Rotate(axis, layer, direction)
  \/ AnimationComplete
  \/ ProcessNextResume

TurnSpec == Init /\ [][TurnNext]_vars

\* The moves of the keys R, E and Shift+B
LiveMoves ==
  {[axis |-> "x", layer |-> 1, direction |-> 1],
   [axis |-> "y", layer |-> 0, direction |-> -1],
   [axis |-> "z", layer |-> -1, direction |-> 1]}

LiveNext ==
  \/ \E m \in LiveMoves : Rotate(m.axis, m.layer, m.direction)
  \/ AnimationComplete
  \/ ProcessNextResume

\* Every animation that runs completes (gsap calls onComplete when the 0.3 s
\* are over) and the event loop runs every pending continuation; requests
\* come whenever the user makes them, or not at all
LiveSpec ==
  /\ Init
  /\ [][LiveNext]_vars
  /\ WF_vars(AnimationComplete)
  /\ WF_vars(ProcessNextResume)

\* Drags and the key R
DragNext ==
  \/ \E cubie \in ClickedCubies, face \in FaceNames, d \in DragVectors :
       Drag(cubie, face, d[1], d[2])
  \/ Rotate("x", 1, 1)
  \/ AnimationComplete
  \/ ProcessNextResume

DragSpec == Init /\ [][DragNext]_vars

\* The same requests, with move functions that may fail
ThrowNext ==
  \/ \E m \in LiveMoves : Rotate(m.axis, m.layer, m.direction)
  \/ AnimationComplete
  \/ ProcessNextResume
  \/ MoveFunctionRejects

ThrowSpec == Init /\ [][ThrowNext]_vars

----------------------------------------------------------------------------
\* Helpers of the properties

\* The elements of a sequence
Range(seq) == {seq[k] : k \in 1..Len(seq)}

\* The move function of id has been invoked and has not completed
InFlight == Range(started) \ Range(completed)

\* Nothing runs and nothing is scheduled: no animation, no continuation
Quiescent == animating = {} /\ micro = <<>>

\* The move with the opposite direction on the same axis and layer
inverseOf(m) == [axis |-> m.axis, layer |-> m.layer, direction |-> -m.direction]

\* The k-th submitted move
moveOf(k) == submitted[k]

\* This step is the onComplete of the frame f
Completes(f) ==
  /\ f \in animating
  /\ completed' = Append(completed, f.moveFunction.id)

----------------------------------------------------------------------------
\* C1: at most one move is in flight at any time: the move function of a
\* later move is never invoked before every earlier started move's function
\* has completed, so no two animations or logical updates overlap.
C1_AtMostOneInFlight ==
  /\ Cardinality(InFlight) <= 1
  /\ Cardinality(animating) + Len(micro) <= 1
  /\ \A k \in 1..(Len(started) - 1) : started[k] \in Range(completed)

\* Three moves submitted at once: the first is over, the second is in
\* flight, the third still waits
C1_Witness ==
  /\ Len(submitted) = 3
  /\ Len(completed) = 1
  /\ Cardinality(animating) = 1
  /\ Len(queue) = 1

\* C2: moves are started and completed in exactly submission order, each
\* exactly once; none is dropped, merged, reordered or skipped (inverse
\* pairs included): the k-th completion applies the k-th submitted move, and
\* once the sequencer is idle every submitted move has been executed.
C2_FifoState ==
  /\ started = [k \in 1..Len(started) |-> k]
  /\ completed = [k \in 1..Len(completed) |-> k]
  /\ Len(completed) <= Len(started)
  /\ Len(started) + Len(queue) = Len(submitted)
  /\ \A k \in 1..Len(queue) :
        /\ queue[k].moveFunction.id = Len(started) + k
        /\ [axis |-> queue[k].moveFunction.axis,
            layer |-> queue[k].moveFunction.layer,
            direction |-> queue[k].moveFunction.direction]
             = moveOf(Len(started) + k)
  /\ Quiescent => Len(completed) = Len(submitted)

C2_FifoExactlyOnce ==
  [][/\ C2_FifoState'
     /\ completed' # completed =>
          /\ Len(completed') = Len(completed) + 1
          /\ cubies' = applyMove(cubies, moveOf(Len(completed) + 1))
     /\ completed' = completed => cubies' = cubies]_vars

\* A move and its inverse were queued one behind the other and both ran
C2_Witness ==
  /\ Len(completed) = 3
  /\ moveOf(3) = inverseOf(moveOf(2))
  /\ moveOf(1).axis # moveOf(2).axis
  /\ Quiescent

\* C3: the promise of a move is resolved exactly once, only after that same
\* move's function has completed, never by another move's completion; once
\* the sequencer is idle every submitter's promise has been resolved.
C3_PromiseResolvedOnceByOwnMove ==
  /\ \A i, j \in 1..Len(resolved) : resolved[i] = resolved[j] => i = j
  /\ Len(resolved) <= Len(completed)
  /\ \A i \in 1..Len(resolved) : resolved[i] = completed[i]
  /\ Len(completed) <= Len(resolved) + Len(micro)
  /\ Quiescent => Range(resolved) = 1..Len(submitted)

\* Two promises are resolved while a third move, queued meanwhile, runs
C3_Witness ==
  /\ Len(resolved) = 2
  /\ Len(submitted) = 3
  /\ Cardinality(animating) = 1

----------------------------------------------------------------------------
\* C4: from any reachable cube state and for each of the 18 moves, the move
\* followed by the move of opposite direction on the same axis and layer
\* restores the coordinates and the six face colours of all 27 cubies.
C4_MoveThenInverseRestores ==
  [][\A f \in animating :
       Completes(f) =>
         applyMove(cubies', inverseOf(f.moveFunction)) = cubies]_vars

\* A move and then its inverse ran on a cube that was not solved, and the
\* cube is back in the state the first move left
C4_Witness ==
  /\ Len(completed) = 3
  /\ moveOf(3) = inverseOf(moveOf(2))
  /\ moveOf(1).axis # moveOf(2).axis
  /\ cubies = applyMove(createCubies, moveOf(1))
  /\ cubies # createCubies

\* C5: from any reachable cube state and for each of the 9 (axis, layer)
\* pairs, four successive turns (axis, layer, +1) restore the coordinates
\* and face colours of all 27 cubies.
C5_FourTurnsRestore ==
  [][\A f \in animating :
       (Completes(f) /\ f.moveFunction.direction = 1) =>
         \A m \in {inverseOf(inverseOf(f.moveFunction))} :
           \A second \in {applyMove(cubies', m)} :
             \A third \in {applyMove(second, m)} :
               applyMove(third, m) = cubies]_vars

\* Three equal +1 turns ran from the solved cube; a fourth one solves it
C5_Witness ==
  /\ Len(completed) = 3
  /\ moveOf(1).direction = 1
  /\ moveOf(2) = moveOf(1)
  /\ moveOf(3) = moveOf(1)
  /\ cubies # createCubies
  /\ applyMove(cubies, moveOf(1)) = createCubies

----------------------------------------------------------------------------
\* The axis and the layer of a face, by name
axisOfFace(face) ==
  IF face \in {"right", "left"} THEN "x"
  ELSE IF face \in {"up", "down"} THEN "y" ELSE "z"

signOfFace(face) == IF face \in {"right", "up", "front"} THEN 1 ELSE -1

\* C6: a cubie's face-colour entry is non-null only on a face whose axis
\* coordinate of that cubie has the matching sign (right only if x = 1, left
\* only if x = -1, ...); entries facing the interior are always null.
C6_ColourOnlyOnOuterSide ==
  \A i \in CubieIds : \A face \in FaceNames :
    cubies[i].faceColors[face] # null
      => cubies[i][axisOfFace(face)] = signOfFace(face)

\* The moves that have completed, in order of completion
completedMoves == [k \in 1..Len(completed) |-> moveOf(completed[k])]

\* The nine stickers the rendered cube shows on a face have one colour
meshFaceSolved(r, face) ==
  \E c \in Colors :
    \A i \in CubieIds :
      r.cubies[i][axisOfFace(face)] = signOfFace(face)
        => r.meshes[i][face] = c

\* C7: solve detection agrees with the physical cube: isFaceSolved(F) is
\* true exactly when the nine stickers showing on face F, each sticker
\* turned with its cubie, all have one colour.
C7_DetectionAgreesWithRenderedCube ==
  \A r \in {rendered(completedMoves)} :
    \A face \in FaceNames :
      isFaceSolved(cubies, face) <=> meshFaceSolved(r, face)

\* C8: isFaceSolved(face) is true iff the face's layer holds 9 cubies, the
\* cubie with zero on both other axes shows a non-null colour on that face,
\* and all 9 cubies show that colour on that face.
C8_Characterised ==
  \A face \in FaceNames :
    \E a \in {axisOfFace(face)} :
      \E onFace \in {{i \in CubieIds : cubies[i][a] = signOfFace(face)}} :
        isFaceSolved(cubies, face) <=>
          /\ Cardinality(onFace) = 9
          /\ \E c \in onFace :
               /\ \A b \in Axes \ {a} : cubies[c][b] = 0
               /\ cubies[c].faceColors[face] \in Colors
               /\ \A i \in onFace :
                    cubies[i].faceColors[face] = cubies[c].faceColors[face]

\* (a predicate of cubies alone: it holds always iff it holds at first and
\* after every step that changes cubies)
C8_IsFaceSolvedCharacterised ==
  C8_Characterised /\ [][cubies' # cubies => C8_Characterised']_vars

\* After moves: one face is solved, another is not although its nine cubies
\* all show the same entry there (null: the centre's colour faces elsewhere)
C8_Witness ==
  /\ Len(completed) >= 1
  /\ \E face \in FaceNames : isFaceSolved(cubies, face)
  /\ \E face \in FaceNames :
       /\ ~isFaceSolved(cubies, face)
       /\ \A i \in CubieIds :
            cubies[i][axisOfFace(face)] = signOfFace(face)
              => cubies[i].faceColors[face] = null

\* C9: a single quarter turn of an outer layer applied to the solved cube
\* leaves the two faces on the turn axis reported solved and the four side
\* faces reported unsolved.
C9_OuterTurnFromSolved ==
  [][\A f \in animating :
       (Completes(f) /\ cubies = createCubies
          /\ f.moveFunction.layer \in {1, -1}) =>
         \A face \in FaceNames :
           isFaceSolved(cubies', face)
             <=> axisOfFace(face) = f.moveFunction.axis]_vars

\* (y, 1, +1) ran on the solved cube: Up and Down solved, the other four not
C9_Witness ==
  /\ Len(completed) = 1
  /\ moveOf(1) = [axis |-> "y", layer |-> 1, direction |-> 1]
  /\ isFaceSolved(cubies, "up") /\ isFaceSolved(cubies, "down")
  /\ \A face \in {"front", "right", "back", "left"} :
       ~isFaceSolved(cubies, face)

\* C10: for every axis and every layer in {-1, 0, 1} exactly 9 cubies have
\* that coordinate equal to that layer, so getCubiesOnLayer and
\* getCubiesOnFace always return 9 cubies.
C10_Nine ==
  /\ \A axis \in Axes : \A layer \in Layers :
       Cardinality(getCubiesOnLayer(cubies, axis, layer)) = 9
  /\ \A face \in FaceNames : Cardinality(getCubiesOnFace(cubies, face)) = 9

\* (a predicate of cubies alone: it holds always iff it holds at first and
\* after every step that changes cubies)
C10_NinePerLayer == C10_Nine /\ [][cubies' # cubies => C10_Nine']_vars

\* Turns about all three axes have run
C10_Witness ==
  /\ Len(completed) = 3
  /\ {moveOf(1).axis, moveOf(2).axis, moveOf(3).axis} = Axes
  /\ moveOf(1).layer = 1 /\ moveOf(2).layer = 0 /\ moveOf(3).layer = -1

----------------------------------------------------------------------------
\* C11: after any sequence of moves every coordinate x, y, z of every cubie
\* is in {-1, 0, 1}.
C11_InRange ==
  \A i \in CubieIds : \A a \in Axes : cubies[i][a] \in {-1, 0, 1}

\* (a predicate of cubies alone: it holds always iff it holds at first and
\* after every step that changes cubies)
C11_CoordinatesInRange ==
  C11_InRange /\ [][cubies' # cubies => C11_InRange']_vars

\* After three moves a corner cubie sits in the corner opposite to the one
\* it started in
C11_Witness ==
  /\ Len(completed) = 3
  /\ \E i \in CubieIds :
       /\ createCubies[i].x # 0
       /\ \A a \in Axes : cubies[i][a] = -createCubies[i][a]

\* C12: after any sequence of moves each of the six face-colour entries of
\* every cubie is one of the six colour names or null; no entry is undefined
\* or missing.
C12_Entries ==
  \A i \in CubieIds :
    /\ DOMAIN cubies[i].faceColors = FaceNames
    /\ \A face \in FaceNames :
         cubies[i].faceColors[face] \in Colors \cup {null}

\* (a predicate of cubies alone, as above)
C12_EntriesAreColoursOrNull ==
  C12_Entries /\ [][cubies' # cubies => C12_Entries']_vars

\* After three moves some corner cubie shows none of its three colours on
\* the entry that held it at first
C12_Witness ==
  /\ Len(completed) = 3
  /\ \E i \in CubieIds :
       /\ \A a \in Axes : createCubies[i][a] # 0
       /\ \A face \in FaceNames :
            createCubies[i].faceColors[face] # null
              => cubies[i].faceColors[face] # createCubies[i].faceColors[face]

----------------------------------------------------------------------------
\* C13: each evaluation (checkAllFaces) makes observable to its caller both
\* the faces that went from unsolved to solved and the faces that went from
\* solved to unsolved since the previous evaluation: every face whose
\* retained status changed is in what the call returned.
C13_BothTransitionsReturned ==
  [][completed' # completed =>
       \A face \in FaceNames :
         ((face \in solvedFaces) # (face \in solvedFaces'))
           => face \in Range(newlySolved')]_vars

\* C14: a face is reported as newly solved only when its solved status
\* changed from false to true: a face that was solved in the cube state
\* before the move (the initial solved cube included) and is still solved
\* after it is not reported, and a face is reported once per transition.
C14_ReportedOnlyOnChange ==
  [][completed' # completed =>
       /\ \A face \in Range(newlySolved') : ~isFaceSolved(cubies, face)
       /\ \A i, j \in 1..Len(newlySolved') :
            newlySolved'[i] = newlySolved'[j] => i = j]_vars

\* C15: every face that becomes solved triggers its unlock animation:
\* whenever onFaceSolved(face) is emitted, play(face) runs the animation of
\* that face, also when two faces become solved in one evaluation or while
\* another unlock animation is running.
C15_EverySolvedFacePlays ==
  \A k \in 1..Len(newlySolved) : newlySolved[k] \in Range(played)

----------------------------------------------------------------------------
\* The request is within the documented ranges
IsValid(m) ==
  m.axis \in Axes /\ m.layer \in Layers /\ m.direction \in Directions

\* C16: a move request whose axis is not in {x, y, z}, whose layer is not in
\* {-1, 0, 1} or whose direction is not in {+1, -1} is rejected at
\* submission: it is never enqueued, never executed (as a no-op or as some
\* other move), its promise is not resolved, and the cube is unchanged.
C16_InvalidRejected ==
  \A k \in 1..Len(submitted) :
    ~IsValid(moveOf(k)) =>
      /\ \A q \in 1..Len(queue) : queue[q].moveFunction.id # k
      /\ k \notin Range(started)
      /\ k \notin Range(resolved)

----------------------------------------------------------------------------
\* C17: the logical cube state changes only at the completion of the
\* in-flight move's animation, through the sequenced move itself: it is
\* unchanged at submission, while the move waits in the queue and while its
\* animation runs, and never changes while no move is in flight.
C17_CommitAtCompletion ==
  [][/\ cubies' # cubies =>
          \E f \in animating :
            /\ Completes(f)
            /\ InFlight = {f.moveFunction.id}
            /\ f.moveFunction.id = Len(completed) + 1
     /\ (submitted' # submitted \/ started' # started
           \/ resolved' # resolved) => cubies' = cubies
     /\ InFlight = {} => cubies' = cubies]_vars

\* Three moves were submitted and the first has completed: the second is
\* being animated, the third waits, and the cube shows the first move only
C17_Witness ==
  /\ Len(submitted) = 3
  /\ Len(completed) = 1
  /\ InFlight = {2}
  /\ Len(queue) = 1
  /\ cubies = applyMove(createCubies, moveOf(1))
  /\ cubies # createCubies
  /\ applyMove(cubies, moveOf(2)) # cubies

\* C18: solve detection runs exactly once per executed move, after that
\* move's permutation has been applied and before the next queued move
\* starts: the retained set and the returned list change only at a
\* completion, where they are computed from the cube after the permutation,
\* and a move starts only when the previous one has been evaluated.
C18_DetectionOncePerMove ==
  [][/\ completed' # completed =>
          /\ solvedFaces' = isSolvedFaces(cubies')
          /\ Range(newlySolved') = solvedFaces' \ solvedFaces
          /\ started' = started
     /\ completed' = completed =>
          (solvedFaces' = solvedFaces /\ newlySolved' = newlySolved)
     /\ started' # started =>
          /\ Len(completed) = Len(started)
          /\ Len(completed) > 0 => solvedFaces = isSolvedFaces(cubies)]_vars

\* The second move starts after the first was evaluated: the first one's
\* faces have been reported, and the cube and the retained set agree
C18_Witness ==
  /\ Len(started) = 2
  /\ Len(completed) = 1
  /\ newlySolved # <<>>
  /\ solvedFaces = isSolvedFaces(cubies)
  /\ cubies # createCubies

----------------------------------------------------------------------------
\* C19: if the in-flight move's completion never signals, the sequencer
\* stalls for good: as long as the running animation has not completed, no
\* step starts a later move or resolves a promise, the flag stays set and the
\* queue only grows; nothing but the completion (no timeout, no recovery)
\* ends the wait.
C19_StallsWithoutCompletion ==
  [][(animating # {} /\ completed' = completed) =>
       /\ animating' = animating
       /\ started' = started
       /\ resolved' = resolved
       /\ isAnimating /\ isAnimating'
       /\ micro' = <<>>
       /\ Len(queue') >= Len(queue)
       /\ SubSeq(queue', 1, Len(queue)) = queue]_vars

\* The first move's animation has not completed while two more requests
\* came in: both wait, none has started, no promise is resolved
C19_Witness ==
  /\ Len(submitted) = 3
  /\ started = <<1>>
  /\ completed = <<>>
  /\ resolved = <<>>
  /\ Len(queue) = 2
  /\ isAnimating

----------------------------------------------------------------------------
\* The sequencer is idle: nothing queued, nothing in flight, nothing pending
Idle ==
  /\ queue = <<>>
  /\ ~isAnimating
  /\ animating = {}
  /\ micro = <<>>

\* C20: if every move's animation eventually completes, every submitted move
\* is eventually executed and its promise eventually resolved, and the queue
\* eventually becomes empty with no move in flight, whenever the (finitely
\* many) submissions are made.
C20_EveryMoveRunsAndQueueDrains ==
  /\ \A k \in 1..MaxMoves :
       (Len(submitted) >= k)
         ~> (k \in Range(completed) /\ k \in Range(resolved))
  /\ <>[](Idle /\ Range(resolved) = 1..Len(submitted))

\* Three requests were made, the last two while a move was running, and all
\* three have run and are resolved
C20_Witness ==
  /\ Len(submitted) = 3
  /\ resolved = <<1, 2, 3>>
  /\ completed = <<1, 2, 3>>
  /\ Idle
  /\ cubies # createCubies

----------------------------------------------------------------------------
\* The quarter turn of a vector about an axis that is clockwise for a viewer
\* at the positive end of the axis looking at the origin (from +z, with x to
\* the right and y up, the top (0, 1) goes to the right (1, 0))
clockwise(v, axis) ==
  IF axis = "x" THEN [x |-> v.x, y |-> v.z, z |-> -v.y]
  ELSE IF axis = "y" THEN [x |-> -v.z, y |-> v.y, z |-> v.x]
  ELSE [x |-> v.y, y |-> -v.x, z |-> v.z]

\* The same turn the other way round
counterclockwise(v, axis) ==
  IF axis = "x" THEN [x |-> v.x, y |-> -v.z, z |-> v.y]
  ELSE IF axis = "y" THEN [x |-> v.z, y |-> v.y, z |-> -v.x]
  ELSE [x |-> -v.y, y |-> v.x, z |-> v.z]

\* The turn a direction stands for
turned(v, axis, direction) ==
  IF direction = 1 THEN clockwise(v, axis) ELSE counterclockwise(v, axis)

\* The coordinates of a cubie as a vector
position(cubie) == [x |-> cubie.x, y |-> cubie.y, z |-> cubie.z]

\* The face with a given unit normal
faceOfNormal(n) == CHOOSE face \in FaceNames : faceNormal(face) = n

\* C22: a move with direction = +1 turns the layer clockwise as viewed from
\* the positive end of its axis, in the coordinate update and in the colour
\* update alike (axis z: the cubie at (0, 1) goes to (1, 0) and the colour on
\* up goes to right); direction = -1 is the opposite turn; the keys R, U, F
\* without Shift issue direction +1.
C22_PlusOneIsClockwise ==
  /\ \A key \in {"r", "u", "f"} : keydown(keyEvent(key, FALSE)).direction = 1
  /\ [][\A f \in animating :
          Completes(f) =>
            \A m \in {moveOf(f.moveFunction.id)} :
              \A i \in f.layerCubies :
                /\ position(cubies'[i])
                     = turned(position(cubies[i]), m.axis, m.direction)
                /\ \A face \in FaceNames :
                     cubies'[i].faceColors[
                         faceOfNormal(turned(faceNormal(face),
                                             m.axis, m.direction))]
                       = cubies[i].faceColors[face]]_vars

\* C24: for each of the nine keys the move issued with Shift held is the
\* inverse of the move issued without: the key and then Shift plus the same
\* key restore the coordinates and colours of all cubies.
C24_ShiftKeyUndoesKey ==
  [][\A f \in animating :
       Completes(f) =>
         \A key \in Keys :
           keydown(keyEvent(key, FALSE)) = moveOf(f.moveFunction.id)
             => applyMove(cubies', keydown(keyEvent(key, TRUE))) = cubies]_vars

\* L and then Shift+L ran on a cube that another key had turned before, and
\* the cube is as that key left it
C24_Witness ==
  /\ Len(completed) = 3
  /\ moveOf(1) = keydown(keyEvent("u", FALSE))
  /\ moveOf(2) = keydown(keyEvent("l", FALSE))
  /\ moveOf(3) = keydown(keyEvent("l", TRUE))
  /\ cubies = applyMove(createCubies, moveOf(1))
  /\ cubies # createCubies

----------------------------------------------------------------------------
\* The colours the nine cubies on a face show on that face
coloursOnFace(cs, face) ==
  {getColorOnFace(cs[i], face) : i \in getCubiesOnFace(cs, face)}

\* This step completes a slice move about the axis a
CompletesSlice(f, a) ==
  /\ Completes(f)
  /\ f.moveFunction.layer = 0
  /\ f.moveFunction.axis = a

\* C23 as claimed: a slice move (layer = 0) affects no outer face's colour
\* set: for every one of the six faces, the colours shown by the nine cubies
\* on that face are the same after the slice move as before it.
C23_SliceChangesNoFace ==
  [][\A f \in animating : \A a \in Axes :
       CompletesSlice(f, a) =>
         \A face \in FaceNames :
           coloursOnFace(cubies', face) = coloursOnFace(cubies, face)]_vars

\* C23 as amended: a slice move about the axis a leaves the two outer faces
\* on that axis as they were: the same nine cubies, each with its
\* coordinates and colours unchanged, hence the same colours shown.
C23_SliceKeepsAxisFaces ==
  [][\A f \in animating : \A a \in Axes :
       CompletesSlice(f, a) =>
         \A face \in {g \in FaceNames : axisOfFace(g) = a} :
           /\ getCubiesOnFace(cubies', face) = getCubiesOnFace(cubies, face)
           /\ \A i \in getCubiesOnFace(cubies, face) : cubies'[i] = cubies[i]
           /\ coloursOnFace(cubies', face) = coloursOnFace(cubies, face)]_vars

\* A slice move ran after an outer turn about another axis: the faces on the
\* slice's axis show what they showed before it, a face beside it does not
C23_Witness ==
  /\ Len(completed) = 2
  /\ moveOf(1).layer = 1
  /\ moveOf(2).layer = 0
  /\ moveOf(1).axis # moveOf(2).axis
  /\ \E before \in {applyMove(createCubies, moveOf(1))} :
       /\ \A face \in {g \in FaceNames : axisOfFace(g) = moveOf(2).axis} :
            coloursOnFace(cubies, face) = coloursOnFace(before, face)
       /\ \E face \in FaceNames :
            coloursOnFace(cubies, face) # coloursOnFace(before, face)

----------------------------------------------------------------------------
\* C26: the cube always consists of the same 27 cubies in the same
\* collection order (none created, removed or replaced by a move), and the
\* cubie created at (0, 0, 0) stays at (0, 0, 0) with all six face-colour
\* entries null after any sequence of moves.
C26_Cubies ==
  /\ DOMAIN cubies = CubieIds
  /\ Cardinality(DOMAIN cubies) = 27
  /\ \E core \in CubieIds :
       /\ \A i \in CubieIds :
            (\A a \in Axes : createCubies[i][a] = 0) <=> i = core
       /\ \A a \in Axes : cubies[core][a] = 0
       /\ \A face \in FaceNames : cubies[core].faceColors[face] = null
       /\ \A i \in CubieIds \ {core} : \E a \in Axes : cubies[i][a] # 0

\* (a predicate of cubies alone: it holds always iff it holds at first and
\* after every step that changes cubies)
C26_Same27CubiesCoreFixed ==
  C26_Cubies /\ [][cubies' # cubies => C26_Cubies']_vars

\* The three slice moves, each of which has the middle cubie in its layer,
\* have run
C26_Witness ==
  /\ Len(completed) = 3
  /\ \A k \in 1..3 : moveOf(k).layer = 0
  /\ {moveOf(1).axis, moveOf(2).axis, moveOf(3).axis} = Axes
  /\ cubies # createCubies

\* C30: a move on (axis a, layer l) changes nothing outside its layer and
\* nothing aligned with its axis: the cubies whose a-coordinate is not l keep
\* coordinates and colours, and every cubie of the layer keeps its
\* a-coordinate and its two face-colour entries on axis a.
C30_MoveFrame ==
  [][\A f \in animating :
       Completes(f) =>
         \A m \in {moveOf(f.moveFunction.id)} :
           \A i \in CubieIds :
             IF cubies[i][m.axis] # m.layer
               THEN cubies'[i] = cubies[i]
               ELSE /\ cubies'[i][m.axis] = cubies[i][m.axis]
                    /\ \A face \in {g \in FaceNames : axisOfFace(g) = m.axis} :
                         cubies'[i].faceColors[face]
                           = cubies[i].faceColors[face]]_vars

\* Outer turns about the three axes have run: the corner opposite to the
\* three layers is as created, and a cubie that was moved still shows red on
\* its right entry, which only turns about x left alone
C30_Witness ==
  /\ Len(completed) = 3
  /\ \A k \in 1..3 : moveOf(k).layer = 1
  /\ {moveOf(1).axis, moveOf(2).axis, moveOf(3).axis} = Axes
  /\ cubies[1] = createCubies[1]
  /\ \E i \in CubieIds :
       /\ cubies[i] # createCubies[i]
       /\ cubies[i].faceColors.right = "red"

-----------------------------------------------------------------------------
\* The moves a scramble call has drawn so far, in the order drawn
movesOf(call) == [j \in 1..Len(call.drawn) |-> call.drawn[j].move]

\* C21: scramble(n) submits exactly n moves through the sequencer, each with
\* axis in {x, y, z}, layer in {-1, 0, 1} and direction in {+1, -1}, in the
\* order drawn, and its returned promise resolves only after the n-th of those
\* moves has completed: a call never has more than n moves of its own among
\* the submitted ones, each is the valid move it drew, a later draw is
\* submitted after every earlier one and only once the earlier one is
\* resolved, no move belongs to two calls, and a call that has returned has
\* all n of them submitted, completed and resolved.
C21_ScrambleSubmitsDrawnMoves ==
  \A k \in 1..Len(scrambles) :
    \E call \in {scrambles[k]} :
      /\ Len(call.drawn) <= call.moveCount
      /\ \A j \in 1..Len(call.drawn) :
            /\ call.drawn[j].id \in 1..Len(submitted)
            /\ submitted[call.drawn[j].id] = call.drawn[j].move
            /\ IsValid(call.drawn[j].move)
            /\ j > 1 => /\ call.drawn[j - 1].id < call.drawn[j].id
                        /\ \E n \in 1..Len(resolved) :
                             resolved[n] = call.drawn[j - 1].id
            /\ \A k2 \in 1..Len(scrambles) : \A j2 \in 1..Len(scrambles[k2].drawn) :
                  scrambles[k2].drawn[j2].id = call.drawn[j].id
                    => k2 = k /\ j2 = j
      /\ call.done =>
            /\ Len(call.drawn) = call.moveCount
            /\ \A j \in 1..call.moveCount :
                  /\ \E n \in 1..Len(completed) :
                       completed[n] = call.drawn[j].id
                  /\ \E n \in 1..Len(resolved) :
                       resolved[n] = call.drawn[j].id
      /\ ~call.done =>
            /\ call.awaits = call.drawn[Len(call.drawn)].id
            /\ call.i = Len(call.drawn) - 1

\* scramble(2) has returned; the key R was pressed between its two moves,
\* which are different moves
C21_Witness ==
  \E k \in 1..Len(scrambles) :
    /\ scrambles[k].done
    /\ scrambles[k].moveCount = 2
    /\ scrambles[k].drawn[1].id = 1
    /\ scrambles[k].drawn[2].id = 3
    /\ scrambles[k].drawn[1].move # scrambles[k].drawn[2].move
    /\ submitted[2] = [axis |-> "x", layer |-> 1, direction |-> 1]
    /\ completed = <<1, 2, 3>>

-----------------------------------------------------------------------------
\* C27: scrambles are reproducible: two scrambles with the same move count
\* and the same seed, started from the same cube state (here: called when the
\* same moves had completed), submit the same sequence of moves.
C27_SameSeedSameMoves ==
  \A k1 \in 1..Len(scrambles) : \A k2 \in 1..Len(scrambles) :
    ( /\ scrambles[k1].moveCount = scrambles[k2].moveCount
      /\ scrambles[k1].seed = scrambles[k2].seed
      /\ scrambles[k1].from = scrambles[k2].from
      /\ scrambles[k1].done
      /\ scrambles[k2].done )
    => movesOf(scrambles[k1]) = movesOf(scrambles[k2])

-----------------------------------------------------------------------------
\* The cubies created at the face-centre positions (exactly one non-zero
\* coordinate)
centreCubies ==
  {i \in CubieIds :
     Cardinality({a \in Axes : createCubies[i][a] # 0}) = 1}

\* C31: the centre cubie of each face never changes position: under any
\* sequence of the 18 moves, the six cubies created at the face-centre
\* positions keep their initial coordinates.
C31_CentresKeepPosition ==
  \A i \in centreCubies : position(cubies[i]) = position(createCubies[i])

-----------------------------------------------------------------------------
\* C32: immediately after every SolveDetector.checkAllFaces call, the
\* retained solvedFaces set equals exactly the set of faces for which
\* isFaceSolved is true in the current cube state; before the first call it
\* is empty although the cube starts solved. (checkAllFaces runs at the
\* completion of each move, and the cube changes at no other moment.)
C32_RetainedSetIsSolvedSet ==
  IF completed = <<>>
    THEN solvedFaces = {} /\ isSolvedFaces(cubies) = FaceNames
    ELSE solvedFaces = isSolvedFaces(cubies)

\* After the second call the set has lost the faces it held after the first
\* (every first move leaves two faces solved): no face is solved, none kept
C32_Witness ==
  /\ Len(completed) = 2
  /\ moveOf(1).axis # moveOf(2).axis
  /\ solvedFaces = {}
  /\ isSolvedFaces(cubies) = {}

-----------------------------------------------------------------------------
\* C33: whenever no move is in flight (MoveQueue.isAnimating is false,
\* observed between event-loop turns), the pending queue is empty: a
\* submitted move is never left waiting while the sequencer is idle.
C33_IdleMeansEmptyQueue ==
  ~isAnimating => queue = <<>>

\* The sequencer is idle again after entries had to wait: the key R was
\* pressed while the first move of scramble(2) ran, and the scramble's second
\* move was submitted while the key's move ran
C33_Witness ==
  /\ ~isAnimating
  /\ queue = <<>>
  /\ micro = <<>>
  /\ started = <<1, 2, 3>>
  /\ resolved = <<1, 2, 3>>
  /\ Len(scrambles) = 1
  /\ movesOf(scrambles[1]) = <<submitted[1], submitted[3]>>

-----------------------------------------------------------------------------
\* The moves whose function was invoked and threw or rejected: started, not
\* completed, and no animation of theirs is running
Failed ==
  {id \in InFlight : \A f \in animating : f.moveFunction.id # id}

\* C34: if a move function throws or its promise rejects,
\* MoveQueue.isAnimating stays true forever: that move's promise never
\* settles, and every later submitted move stays queued and is never
\* executed.
C34_FailureBlocksForever ==
  \A id \in 1..(MaxMoves + 1) :
    [](id \in Failed =>
         [](/\ id \in Failed
            /\ isAnimating
            /\ id \notin Range(resolved)
            /\ \A k \in (id + 1)..Len(submitted) :
                 /\ k \notin Range(started)
                 /\ \E n \in 1..Len(queue) : queue[n].resolve = k))

\* The first move failed after a second one was submitted behind it, and a
\* third one was submitted after the failure
C34_Witness ==
  /\ 1 \in Failed
  /\ Len(submitted) = 3
  /\ Len(queue) = 2
  /\ isAnimating
  /\ animating = {}
  /\ micro = <<>>

-----------------------------------------------------------------------------
\* C35: in any reachable cube state, a move about axis a (any layer, any
\* direction) does not change the solved status of the two faces
\* perpendicular to a (for x: right and left; for y: up and down; for z:
\* front and back).
C35_AxisFacesKeepStatus ==
  [][\A f \in animating :
       Completes(f) =>
         \A face \in {g \in FaceNames : axisOfFace(g) = f.moveFunction.axis} :
           isFaceSolved(cubies', face) <=> isFaceSolved(cubies, face)]_vars

\* A move about one axis ran after a move about another one: the two faces
\* on the second move's axis are unsolved, as the first move had left them
C35_Witness ==
  /\ Len(completed) = 2
  /\ moveOf(1).axis # moveOf(2).axis
  /\ \A face \in FaceNames :
       axisOfFace(face) = moveOf(2).axis =>
         /\ ~isFaceSolved(cubies, face)
         /\ ~isFaceSolved(applyMove(createCubies, moveOf(1)), face)

-----------------------------------------------------------------------------
\* The grid {-1, 0, 1}^3
Grid == [x : Layers, y : Layers, z : Layers]

\* C36: after any sequence of moves the 27 cubies occupy 27 pairwise
\* distinct grid positions of {-1,0,1}^3: no two cubies ever share
\* coordinates and every position holds exactly one cubie.
C36_OneCubiePerPosition ==
  \E occupied \in {{position(cubies[i]) : i \in CubieIds}} :
    /\ Cardinality(occupied) = NumCubies
    /\ occupied = Grid

\* Three moves about three axes have run, a slice move among them, and
\* cubies are away from where they were created
C36_Witness ==
  /\ Len(completed) = 3
  /\ {moveOf(1).axis, moveOf(2).axis, moveOf(3).axis} = Axes
  /\ moveOf(2).layer = 0
  /\ Cardinality({i \in CubieIds :
                    position(cubies[i]) # position(createCubies[i])}) >= 15

-----------------------------------------------------------------------------
\* How many of a cubie's six face-colour entries hold the value c
entriesWith(cubie, c) ==
  Cardinality({face \in FaceNames : cubie.faceColors[face] = c})

\* C37: moves only permute stickers: after any sequence of moves each of the
\* six colours appears in exactly 9 face-colour entries over the whole cube,
\* and each cubie carries the same multiset of colours it was created with.
C37_Permuted ==
  /\ \A c \in Colors :
       Cardinality({e \in CubieIds \X FaceNames :
                      cubies[e[1]].faceColors[e[2]] = c}) = 9
  /\ \A i \in CubieIds : \A c \in Colors \cup {null} :
       entriesWith(cubies[i], c) = entriesWith(createCubies[i], c)

\* (a predicate of cubies alone: it holds always iff it holds at first and
\* after every step that changes cubies)
C37_StickersOnlyPermuted ==
  C37_Permuted /\ [][cubies' # cubies => C37_Permuted']_vars

\* Three moves about three axes have run and most coloured cubies hold their
\* colours in other entries than at creation
C37_Witness ==
  /\ Len(completed) = 3
  /\ {moveOf(1).axis, moveOf(2).axis, moveOf(3).axis} = Axes
  /\ Cardinality({i \in CubieIds :
                    cubies[i].faceColors # createCubies[i].faceColors}) >= 15

-----------------------------------------------------------------------------
\* The ids of the moves a scramble call has submitted
idsOf(call) == {call.drawn[j].id : j \in 1..Len(call.drawn)}

\* Every submitted move has been executed and every scramble has returned
AllExecuted ==
  /\ Range(completed) = 1..Len(submitted)
  /\ \A k \in 1..Len(scrambles) : scrambles[k].done

\* C38, the part about states: a scramble has at most one unresolved move,
\* and while a move of another source waits, at most one move of the
\* scramble is still to be executed ahead of it
C38_OneMoveAtATime ==
  \A k \in 1..Len(scrambles) :
    \E own \in {idsOf(scrambles[k])} :
      /\ Cardinality(own \ Range(resolved)) <= 1
      /\ \A u \in (1..Len(submitted)) \ own :
           u \notin Range(started) =>
             Cardinality({id \in own : id < u} \ Range(completed)) <= 1

\* C38: a running scramble has at most one of its moves in the sequencer at
\* a time, because it submits the next move only after the previous one's
\* promise resolved; a move submitted by another source (key press, second
\* scramble) during a scramble is therefore executed after at most one
\* further move of that scramble, and all moves of both sources are
\* eventually executed.
C38_ScrambleInterleaves ==
  /\ []C38_OneMoveAtATime
  /\ []<>AllExecuted

\* The key R was pressed while a move of scramble(1) waited in the queue
\* behind another move: the key's move waits behind the scramble's
C38_Witness ==
  /\ Len(scrambles) = 1
  /\ scrambles[1].awaits = 2
  /\ Len(queue) = 2
  /\ queue[1].resolve = 2
  /\ queue[2].resolve = 3
  /\ 1 \in InFlight

-----------------------------------------------------------------------------
=============================================================================
